---- MODULE Spec2Model ----
(***************************************************************************)
(* Model of the trip-guide chat repository:                                *)
(*   src/src/services/trip-guide.ts       sendMessageToTripGuide (the file *)
(*       holds four successive definitions of the function, here called    *)
(*       revisions 1..4 in file order) and cleanResponseMessage;           *)
(*   src/src/components/chat/chat-interface.tsx   ChatInterface and its    *)
(*       handleSendMessage handler.                                        *)
(*                                                                         *)
(* Text is modelled character by character: a string is a sequence of      *)
(* one-character strings, so JSON.parse, JSON.stringify, String.replace,   *)
(* startsWith and trim are computed on the characters.                     *)
(***************************************************************************)
EXTENDS Integers, Sequences, FiniteSets, TLC

VARIABLES
    revision,    \* which definition of sendMessageToTripGuide is the one called
    messages,    \* ChatInterface state: Message[] (role, content)
    inputValue,  \* ChatInterface state: the text of the input box
    isLoading,   \* ChatInterface state
    pc,          \* position of the pending sendMessageToTripGuide call
    arg,         \* the message the pending call was invoked with
    cause,       \* what the fetch of the last call rejected with (NoCause if it did not)
    response,    \* the Response fetch resolved with (NoResponse before that)
    result,      \* how the last call settled (NoResult before the first one)
    lastOp       \* the handler or step that ran last

vars == <<revision, messages, inputValue, isLoading, pc, arg, cause, response, result, lastOp>>

(***************************************************************************)
(* Bounds of the model.                                                    *)
(***************************************************************************)
MaxLen == 2        \* longest generated candidate / plain-text body
MaxInputLen == 2   \* longest text typed into the input box
MaxTurns == 2      \* accepted submits per chat session

(***************************************************************************)
(* Characters and strings.                                                 *)
(***************************************************************************)
Chars(str) == [i \in 1..Len(str) |-> SubSeq(str, i, i)]

BS == "\\"
DQ == "\""
NL == "\n"
TAB == "\t"
CR == "\r"
Backspace == "<U+0008>"
FormFeed == "<U+000C>"

\* String.prototype.startsWith
StartsWith(s, prefix) ==
    /\ Len(prefix) <= Len(s)
    /\ SubSeq(s, 1, Len(prefix)) = prefix

\* String.prototype.includes
Contains(s, needle) ==
    \E i \in 1..(Len(s) - Len(needle) + 1) : SubSeq(s, i, i + Len(needle) - 1) = needle

Digits == {"0", "1", "2", "3", "4", "5", "6", "7", "8", "9"}

DigitOf(d) == CHOOSE c \in Digits : ToString(d) = c

\* Number-to-string conversion of a template literal, for a non-negative integer
RECURSIVE IntToChars(_)
IntToChars(k) ==
    IF k < 10 THEN <<DigitOf(k)>> ELSE IntToChars(k \div 10) \o <<DigitOf(k % 10)>>

\* White space removed by String.prototype.trim
TrimSpace == {" ", TAB, NL, CR, FormFeed}

RECURSIVE TrimStart(_)
TrimStart(s) ==
    IF s # <<>> /\ Head(s) \in TrimSpace THEN TrimStart(Tail(s)) ELSE s

RECURSIVE TrimEnd(_)
TrimEnd(s) ==
    IF s # <<>> /\ s[Len(s)] \in TrimSpace THEN TrimEnd(SubSeq(s, 1, Len(s) - 1)) ELSE s

\* String.prototype.trim
Trim(s) == TrimEnd(TrimStart(s))

(***************************************************************************)
(* JSON values.  t is the JavaScript type of the value; s holds the text   *)
(* of a string or the lexeme of a number; items the elements of an array;  *)
(* keys and vals the own properties of an object in insertion order.       *)
(***************************************************************************)
JVal(t, s, items, keys, vals) ==
    [t |-> t, s |-> s, items |-> items, keys |-> keys, vals |-> vals]

Undefined == JVal("undefined", <<>>, <<>>, <<>>, <<>>)
JNull == JVal("null", <<>>, <<>>, <<>>, <<>>)
JTrue == JVal("true", <<>>, <<>>, <<>>, <<>>)
JFalse == JVal("false", <<>>, <<>>, <<>>, <<>>)
JStr(s) == JVal("string", s, <<>>, <<>>, <<>>)
JNum(lexeme) == JVal("number", lexeme, <<>>, <<>>, <<>>)
JArr(items) == JVal("array", <<>>, items, <<>>, <<>>)
JObj(keys, vals) == JVal("object", <<>>, <<>>, keys, vals)

\* typeof v === 'string'
IsString(v) == v.t = "string"

\* typeof v === 'object' (true of null, arrays and objects)
TypeofObject(v) == v.t \in {"null", "array", "object"}

\* a number lexeme denoting zero (0, -0, 0.0, 0e5): every mantissa digit is 0
IsZeroLexeme(lexeme) ==
    \A i \in 1..Len(lexeme) :
        (\A j \in 1..i : lexeme[j] \notin {"e", "E"}) => lexeme[i] \in {"0", "-", "."}

\* ToBoolean of a parsed JSON value
IsTruthy(v) ==
    CASE v.t \in {"undefined", "null", "false"} -> FALSE
      [] v.t = "string" -> v.s # <<>>
      [] v.t = "number" -> ~IsZeroLexeme(v.s)
      [] OTHER -> TRUE

\* property read v.key (v?.key on undefined and null gives undefined)
GetProp(v, key) ==
    IF v.t = "object" /\ \E i \in 1..Len(v.keys) : v.keys[i] = key
    THEN v.vals[CHOOSE i \in 1..Len(v.keys) : v.keys[i] = key]
    ELSE Undefined

\* object property definition during parsing: a repeated key keeps its place
\* and takes the later value
PutProp(keys, vals, key, val) ==
    IF \E i \in 1..Len(keys) : keys[i] = key
    THEN [keys |-> keys,
          vals |-> [i \in 1..Len(vals) |-> IF keys[i] = key THEN val ELSE vals[i]]]
    ELSE [keys |-> Append(keys, key), vals |-> Append(vals, val)]

(***************************************************************************)
(* JSON.parse, by recursive descent over the characters.  A parse returns  *)
(* [ok, v, i]: whether it succeeded (JSON.parse throws when it does not),  *)
(* the value, and the index after the text consumed.                       *)
(***************************************************************************)
JsonWs == {" ", TAB, NL, CR}

\* the characters below U+0020, which may not appear unescaped in a string
ControlChars == {NL, TAB, CR, Backspace, FormFeed}

HexDigits == Digits \cup {"a", "b", "c", "d", "e", "f", "A", "B", "C", "D", "E", "F"}

SimpleEscape ==
    (DQ :> DQ) @@ (BS :> BS) @@ ("/" :> "/") @@ ("b" :> Backspace) @@
    ("f" :> FormFeed) @@ ("n" :> NL) @@ ("r" :> CR) @@ ("t" :> TAB)

LowerHex(c) ==
    CASE c = "A" -> "a" [] c = "B" -> "b" [] c = "C" -> "c"
      [] c = "D" -> "d" [] c = "E" -> "e" [] c = "F" -> "f" [] OTHER -> c

\* the character a \uXXXX escape denotes; a code unit outside the table is
\* kept as one opaque character named by its code
UnicodeEscape(h) ==
    LET x == [i \in 1..4 |-> LowerHex(h[i])] IN
    CASE x = Chars("000a") -> NL
      [] x = Chars("0009") -> TAB
      [] x = Chars("000d") -> CR
      [] x = Chars("0008") -> Backspace
      [] x = Chars("000c") -> FormFeed
      [] x = Chars("0020") -> " "
      [] x = Chars("0022") -> DQ
      [] x = Chars("005c") -> BS
      [] x = Chars("0061") -> "a"
      [] x = Chars("006e") -> "n"
      [] OTHER -> "<U+" \o x[1] \o x[2] \o x[3] \o x[4] \o ">"

ParseFail == [ok |-> FALSE, v |-> Undefined, i |-> 0]
ParseOk(v, i) == [ok |-> TRUE, v |-> v, i |-> i]

RECURSIVE SkipWs(_, _)
SkipWs(s, i) ==
    IF i <= Len(s) /\ s[i] \in JsonWs THEN SkipWs(s, i + 1) ELSE i

RECURSIVE SkipDigits(_, _)
SkipDigits(s, i) ==
    IF i <= Len(s) /\ s[i] \in Digits THEN SkipDigits(s, i + 1) ELSE i

MatchAt(s, i, lit) ==
    /\ i + Len(lit) - 1 <= Len(s)
    /\ SubSeq(s, i, i + Len(lit) - 1) = lit

\* the characters of a string literal after its opening quote
RECURSIVE ParseChars(_, _, _)
ParseChars(s, i, acc) ==
    IF i > Len(s) THEN ParseFail
    ELSE IF s[i] = DQ THEN ParseOk(JStr(acc), i + 1)
    ELSE IF s[i] \in ControlChars THEN ParseFail
    ELSE IF s[i] # BS THEN ParseChars(s, i + 1, Append(acc, s[i]))
    ELSE IF i + 1 > Len(s) THEN ParseFail
    ELSE IF s[i + 1] = "u" THEN
        IF i + 5 <= Len(s) /\ \A k \in 2..5 : s[i + k] \in HexDigits
        THEN ParseChars(s, i + 6, Append(acc, UnicodeEscape(SubSeq(s, i + 2, i + 5))))
        ELSE ParseFail
    ELSE IF s[i + 1] \in DOMAIN SimpleEscape
        THEN ParseChars(s, i + 2, Append(acc, SimpleEscape[s[i + 1]]))
    ELSE ParseFail

\* number = [ - ] int [ frac ] [ exp ].  Each scanner takes the index reached
\* so far and returns the index after its part, 0 when the text is no number.
NumInt(s, a) ==
    IF a > Len(s) \/ s[a] \notin Digits THEN 0
    ELSE IF s[a] = "0" THEN a + 1
    ELSE SkipDigits(s, a)

NumFrac(s, b) ==
    IF b = 0 THEN 0
    ELSE IF b > Len(s) \/ s[b] # "." THEN b
    ELSE IF SkipDigits(s, b + 1) > b + 1 THEN SkipDigits(s, b + 1)
    ELSE 0

NumExpDigits(s, d) ==
    IF SkipDigits(s, d) > d THEN SkipDigits(s, d) ELSE 0

NumExp(s, c) ==
    IF c = 0 THEN 0
    ELSE IF c > Len(s) \/ s[c] \notin {"e", "E"} THEN c
    ELSE IF c + 1 <= Len(s) /\ s[c + 1] \in {"+", "-"} THEN NumExpDigits(s, c + 2)
    ELSE NumExpDigits(s, c + 1)

\* the value keeps the lexeme of the number
NumberFrom(s, i, e) ==
    IF e = 0 THEN ParseFail ELSE ParseOk(JNum(SubSeq(s, i, e - 1)), e)

ParseNumber(s, i) ==
    NumberFrom(s, i, NumExp(s, NumFrac(s, NumInt(s, IF s[i] = "-" THEN i + 1 ELSE i))))

RECURSIVE ParseValue(_, _), ValueAt(_, _), OpenObject(_, _), OpenArray(_, _)
RECURSIVE ParseElements(_, _, _), ElementNext(_, _, _), ElementEnd(_, _, _)
RECURSIVE ParseMembers(_, _, _, _), MemberKey(_, _, _, _), MemberColon(_, _, _, _)
RECURSIVE MemberValue(_, _, _, _, _), MemberNext(_, _, _, _, _), MemberEnd(_, _, _)

\* a value, after any white space
ParseValue(s, i0) == ValueAt(s, SkipWs(s, i0))

ValueAt(s, i) ==
    IF i > Len(s) THEN ParseFail
    ELSE CASE s[i] = "{" -> OpenObject(s, SkipWs(s, i + 1))
           [] s[i] = "[" -> OpenArray(s, SkipWs(s, i + 1))
           [] s[i] = DQ -> ParseChars(s, i + 1, <<>>)
           [] s[i] = "-" \/ s[i] \in Digits -> ParseNumber(s, i)
           [] MatchAt(s, i, Chars("true")) -> ParseOk(JTrue, i + 4)
           [] MatchAt(s, i, Chars("false")) -> ParseOk(JFalse, i + 5)
           [] MatchAt(s, i, Chars("null")) -> ParseOk(JNull, i + 4)
           [] OTHER -> ParseFail

OpenObject(s, j) ==
    IF j <= Len(s) /\ s[j] = "}"
    THEN ParseOk(JObj(<<>>, <<>>), j + 1)
    ELSE ParseMembers(s, j, <<>>, <<>>)

OpenArray(s, j) ==
    IF j <= Len(s) /\ s[j] = "]"
    THEN ParseOk(JArr(<<>>), j + 1)
    ELSE ParseElements(s, j, <<>>)

\* the elements of an array from index i on; acc holds those already parsed
ParseElements(s, i, acc) == ElementNext(s, ParseValue(s, i), acc)

ElementNext(s, r, acc) ==
    IF ~r.ok THEN ParseFail ELSE ElementEnd(s, SkipWs(s, r.i), Append(acc, r.v))

ElementEnd(s, j, acc) ==
    IF j > Len(s) THEN ParseFail
    ELSE IF s[j] = "," THEN ParseElements(s, j + 1, acc)
    ELSE IF s[j] = "]" THEN ParseOk(JArr(acc), j + 1)
    ELSE ParseFail

\* the members of an object from index i on; keys and vals hold the
\* properties already defined
ParseMembers(s, i, keys, vals) == MemberKey(s, SkipWs(s, i), keys, vals)

MemberKey(s, i, keys, vals) ==
    IF i > Len(s) \/ s[i] # DQ THEN ParseFail
    ELSE MemberColon(s, ParseChars(s, i + 1, <<>>), keys, vals)

MemberColon(s, k, keys, vals) ==
    IF ~k.ok THEN ParseFail ELSE MemberValue(s, k.v.s, SkipWs(s, k.i), keys, vals)

MemberValue(s, key, j, keys, vals) ==
    IF j > Len(s) \/ s[j] # ":" THEN ParseFail
    ELSE MemberNext(s, key, ParseValue(s, j + 1), keys, vals)

MemberNext(s, key, r, keys, vals) ==
    IF ~r.ok THEN ParseFail
    ELSE MemberEnd(s, SkipWs(s, r.i), PutProp(keys, vals, key, r.v))

MemberEnd(s, m, put) ==
    IF m > Len(s) THEN ParseFail
    ELSE IF s[m] = "," THEN ParseMembers(s, m + 1, put.keys, put.vals)
    ELSE IF s[m] = "}" THEN ParseOk(JObj(put.keys, put.vals), m + 1)
    ELSE ParseFail

\* the whole text must be one value with white space around it
WholeText(text, r) ==
    IF r.ok /\ SkipWs(text, r.i) = Len(text) + 1
    THEN [ok |-> TRUE, v |-> r.v]
    ELSE [ok |-> FALSE, v |-> Undefined]

\* JSON.parse(text): ok is FALSE where JSON.parse throws a SyntaxError
JsonParse(text) == WholeText(text, ParseValue(text, 1))

(***************************************************************************)
(* JSON.stringify of a parsed value (no indentation).                      *)
(***************************************************************************)
EscapeChar(c) ==
    CASE c = DQ -> <<BS, DQ>>
      [] c = BS -> <<BS, BS>>
      [] c = NL -> <<BS, "n">>
      [] c = TAB -> <<BS, "t">>
      [] c = CR -> <<BS, "r">>
      [] c = Backspace -> <<BS, "b">>
      [] c = FormFeed -> <<BS, "f">>
      [] OTHER -> <<c>>

RECURSIVE EscapeChars(_)
EscapeChars(s) ==
    IF s = <<>> THEN <<>> ELSE EscapeChar(Head(s)) \o EscapeChars(Tail(s))

Quote(s) == <<DQ>> \o EscapeChars(s) \o <<DQ>>

\* Number-to-string of an integer lexeme (-0 prints as 0); the generated
\* bodies hold no fractions or exponents, whose lexeme is kept as written
NumberToChars(lexeme) ==
    IF lexeme = <<"-", "0">> THEN <<"0">> ELSE lexeme

RECURSIVE JsonStringify(_), StringifyItems(_, _), StringifyMembers(_, _, _)
JsonStringify(v) ==
    CASE v.t = "string" -> Quote(v.s)
      [] v.t = "number" -> NumberToChars(v.s)
      [] v.t = "true" -> Chars("true")
      [] v.t = "false" -> Chars("false")
      [] v.t = "array" -> <<"[">> \o StringifyItems(v.items, 1) \o <<"]">>
      [] v.t = "object" -> <<"{">> \o StringifyMembers(v.keys, v.vals, 1) \o <<"}">>
      [] OTHER -> Chars("null")

StringifyItems(items, i) ==
    IF i > Len(items) THEN <<>>
    ELSE (IF i > 1 THEN <<",">> ELSE <<>>) \o JsonStringify(items[i])
         \o StringifyItems(items, i + 1)

StringifyMembers(keys, vals, i) ==
    IF i > Len(keys) THEN <<>>
    ELSE (IF i > 1 THEN <<",">> ELSE <<>>) \o Quote(keys[i]) \o <<":">>
         \o JsonStringify(vals[i]) \o StringifyMembers(keys, vals, i + 1)

(***************************************************************************)
(* src/src/services/trip-guide.ts                                          *)
(*                                                                         *)
(* A cause is what a rejected promise carries: isError tells whether it is *)
(* an instance of Error, message is its message.  A response is what fetch *)
(* resolves with; readable tells whether response.text() resolves, and     *)
(* readError is what it rejects with when it does not.  A result is how    *)
(* the returned promise settles: thrown (rejected with new Error(text)) or *)
(* resolved with text; site names the throw or return statement taken.     *)
(***************************************************************************)
Cause(isError, message) == [isError |-> isError, message |-> message]

NoCause == Cause(FALSE, <<>>)

Response(status, statusText, body, readable, readError) ==
    [status |-> status, statusText |-> statusText, body |-> body,
     readable |-> readable, readError |-> readError]

NoResponse == Response(0, <<>>, <<>>, TRUE, NoCause)

\* response.ok
IsOk(resp) == resp.status \in 200..299

Thrown(site, text) == [thrown |-> TRUE, site |-> site, text |-> text]
Returned(site, text) == [thrown |-> FALSE, site |-> site, text |-> text]

NoResult == Returned("none", <<>>)

Rejected(c) == [rejected |-> TRUE, cause |-> c, response |-> NoResponse]
Resolved(resp) == [rejected |-> FALSE, cause |-> NoCause, response |-> resp]

K_body == Chars("body")
K_message == Chars("message")
K_output == Chars("output")
K_reply == Chars("reply")
K_text == Chars("text")

OutputWrapperPrefix == Chars("[{\"output\":")
BodyWrapperPrefix == Chars("{\"body\":")

\* as ReplaceEscapedNewlines, with the g flag of the regular expression left
\* out: only the first backslash-n is replaced
RECURSIVE ReplaceEscapedNewlines_FirstOnly(_)
ReplaceEscapedNewlines_FirstOnly(s) ==
    IF Len(s) < 2 THEN s
    ELSE IF s[1] = BS /\ s[2] = "n"
         THEN <<NL>> \o SubSeq(s, 3, Len(s))
         ELSE <<s[1]>> \o ReplaceEscapedNewlines_FirstOnly(Tail(s))

\* cleanedMessage.replace(/\\n/g, '\n'): every backslash followed by n, left
\* to right, becomes one newline
RECURSIVE ReplaceEscapedNewlines(_)
ReplaceEscapedNewlines(s) ==
    IF Len(s) < 2 THEN s
    ELSE IF s[1] = BS /\ s[2] = "n"
         THEN <<NL>> \o ReplaceEscapedNewlines(SubSeq(s, 3, Len(s)))
         ELSE <<s[1]>> \o ReplaceEscapedNewlines(Tail(s))

\* the if statement of the try block of cleanResponseMessage, parsed being
\* the outcome of JSON.parse(rawMessage)
UnwrapParsed(rawMessage, parsed) ==
    IF /\ parsed.ok
       /\ parsed.v.t = "array"
       /\ Len(parsed.v.items) > 0
       /\ TypeofObject(parsed.v.items[1])
       /\ parsed.v.items[1].t # "null"
       /\ IsString(GetProp(parsed.v.items[1], K_output))
    THEN GetProp(parsed.v.items[1], K_output).s
    ELSE rawMessage

\* the try block of cleanResponseMessage: the output of the first element
\* when rawMessage is the text of a JSON array that starts with an object
\* holding a string output, rawMessage otherwise
UnwrapOutput(rawMessage) == UnwrapParsed(rawMessage, JsonParse(rawMessage))

\* as cleanResponseMessage, without the replacement of the escaped newlines
cleanResponseMessage_NoReplace(rawMessage) == UnwrapOutput(rawMessage)

\* as cleanResponseMessage, without the try block that unwraps the array
cleanResponseMessage_NoUnwrap(rawMessage) == ReplaceEscapedNewlines(rawMessage)

cleanResponseMessage(rawMessage) ==
    ReplaceEscapedNewlines(UnwrapOutput(rawMessage))

\* the catch block of the fetch call (revisions 1, 2 and 4)
NetworkError(networkError) ==
    IF networkError.isError
    THEN Thrown("network", Chars("Network error: ") \o networkError.message)
    ELSE Thrown("network", Chars("A network error occurred while contacting the Trip Guide."))

\* the catch block of the response.text() call of an OK response
ReadError(readError) ==
    IF readError.isError
    THEN Thrown("read", Chars("Error reading response: ") \o readError.message)
    ELSE Thrown("read", Chars("An error occurred while reading the response from the Trip Guide."))

\* errorBody of the !response.ok branch
ErrorBody(resp) ==
    IF resp.readable THEN resp.body ELSE Chars("Could not read error response body.")

StatusLine(resp) ==
    Chars("Webhook request failed with status ") \o IntToChars(resp.status)
        \o Chars(": ") \o resp.statusText

\* responseData?.body?.message
BodyMessage(responseData) == GetProp(GetProp(responseData, K_body), K_message)

\* the candidate of revisions 1 and 4: body.message when parsed, the outcome
\* of JSON.parse(responseText), holds a non-empty string there, the raw text
\* otherwise
SelectMessage(responseText, parsed) ==
    IF parsed.ok /\ IsTruthy(BodyMessage(parsed.v)) /\ IsString(BodyMessage(parsed.v))
    THEN BodyMessage(parsed.v).s
    ELSE responseText

\* revision 1: messageToClean after the try/catch around JSON.parse
messageToClean(responseText) == SelectMessage(responseText, JsonParse(responseText))

\* as CheckFinalMessage, with the test for the body prefix left out
CheckFinalMessage_OutputOnly(finalMessage) ==
    IF StartsWith(finalMessage, OutputWrapperPrefix)
    THEN Thrown("guard", Chars("Received an unreadable response structure from the Trip Guide."))
    ELSE Returned("return", finalMessage)

\* revision 1: the final check on finalMessage
CheckFinalMessage(finalMessage) ==
    IF StartsWith(finalMessage, OutputWrapperPrefix) \/ StartsWith(finalMessage, BodyWrapperPrefix)
    THEN Thrown("guard", Chars("Received an unreadable response structure from the Trip Guide."))
    ELSE Returned("return", finalMessage)

\* revision 1: from messageToClean to the return
FinalMessage(responseText) ==
    CheckFinalMessage(cleanResponseMessage(messageToClean(responseText)))

\* revision 1 of sendMessageToTripGuide, given how fetch settled
sendMessageToTripGuide1(net) ==
    IF net.rejected THEN NetworkError(net.cause)
    ELSE IF ~IsOk(net.response) THEN Thrown("http", StatusLine(net.response))
    ELSE IF ~net.response.readable THEN ReadError(net.response.readError)
    ELSE FinalMessage(net.response.body)

\* revision 2: the try/catch around JSON.parse, parsed being its outcome
SelectBodyMessage2(parsed) ==
    IF ~parsed.ok THEN Returned("return", Chars("Sorry, I received an unreadable response."))
    ELSE IF /\ IsTruthy(parsed.v) /\ TypeofObject(parsed.v)
            /\ IsTruthy(GetProp(parsed.v, K_body)) /\ TypeofObject(GetProp(parsed.v, K_body))
            /\ IsString(BodyMessage(parsed.v))
    THEN Returned("return", BodyMessage(parsed.v).s)
    ELSE Returned("return",
            Chars("Sorry, I received an unexpected response format from the Trip Guide."))

ExtractBodyMessage2(responseText) == SelectBodyMessage2(JsonParse(responseText))

sendMessageToTripGuide2(net) ==
    IF net.rejected THEN NetworkError(net.cause)
    ELSE IF ~IsOk(net.response) THEN Thrown("http", StatusLine(net.response))
    ELSE IF ~net.response.readable THEN ReadError(net.response.readError)
    ELSE ExtractBodyMessage2(net.response.body)

\* revision 3: the catch block around the whole function body
Unreachable3 ==
    Returned("catch",
        Chars("Sorry, I encountered an error trying to reach the Trip Guide. Please try again later."))

\* revision 3: fallbackMessage
FallbackMessage3(responseData) ==
    IF TypeofObject(responseData) THEN JsonStringify(responseData)
    ELSE Chars("Received unexpected response format.")

\* revision 3: from responseData to the return
ExtractReply3(responseData) ==
    IF IsTruthy(responseData) /\ IsString(GetProp(responseData, K_reply))
    THEN Returned("return", GetProp(responseData, K_reply).s)
    ELSE IF IsString(responseData) THEN Returned("return", responseData.s)
    ELSE IF IsTruthy(responseData) /\ IsString(GetProp(responseData, K_message))
    THEN Returned("return", GetProp(responseData, K_message).s)
    ELSE IF IsTruthy(responseData) /\ IsString(GetProp(responseData, K_text))
    THEN Returned("return", GetProp(responseData, K_text).s)
    ELSE Returned("return", FallbackMessage3(responseData))

\* revision 3: response.json() rejects when the body is not JSON
JsonBody3(parsed) ==
    IF ~parsed.ok THEN Unreachable3 ELSE ExtractReply3(parsed.v)

\* revision 3: every throw inside the try block, the one for a non-OK status
\* included, lands in the catch block; response.json() rejects when the body
\* cannot be read or is not JSON
sendMessageToTripGuide3(net) ==
    IF net.rejected THEN Unreachable3
    ELSE IF ~IsOk(net.response) THEN Unreachable3
    ELSE IF ~net.response.readable THEN Unreachable3
    ELSE JsonBody3(JsonParse(net.response.body))

\* revision 4: the try/catch around JSON.parse
ExtractBodyMessage4(responseText) ==
    Returned("return", SelectMessage(responseText, JsonParse(responseText)))

sendMessageToTripGuide4(net) ==
    IF net.rejected THEN NetworkError(net.cause)
    ELSE IF ~IsOk(net.response)
    THEN Thrown("http", StatusLine(net.response) \o Chars(". Body: ") \o ErrorBody(net.response))
    ELSE IF ~net.response.readable THEN ReadError(net.response.readError)
    ELSE ExtractBodyMessage4(net.response.body)

Revisions == 1..4

sendMessageToTripGuide(rev, net) ==
    CASE rev = 1 -> sendMessageToTripGuide1(net)
      [] rev = 2 -> sendMessageToTripGuide2(net)
      [] rev = 3 -> sendMessageToTripGuide3(net)
      [] rev = 4 -> sendMessageToTripGuide4(net)

(***************************************************************************)
(* src/src/components/chat/chat-interface.tsx                              *)
(***************************************************************************)
Message(role, content) == [role |-> role, content |-> content]

\* the content of the ai message of the try and catch blocks of
\* handleSendMessage; whatever sendMessageToTripGuide throws is an Error
AiMessageContent(res) ==
    IF res.thrown THEN Chars("Sorry, I encountered an error: ") \o res.text ELSE res.text

\* accepted submits so far: one user message each
Turns == Cardinality({i \in 1..Len(messages) : messages[i].role = "user"})

(***************************************************************************)
(* The inputs the environment supplies.                                    *)
(***************************************************************************)
SeqsUpTo(alphabet, n) == UNION {[1..k -> alphabet] : k \in 0..n}

\* what the user can type into the input box
InputChars == {" ", "a"}
InputValues == SeqsUpTo(InputChars, MaxInputLen)

\* what a rejected fetch or a rejected response.text() can carry
Causes == {Cause(TRUE, Chars("Failed to fetch")), Cause(FALSE, <<>>)}

\* reply texts: every text of at most MaxLen characters over TextChars, and
\* some longer ones that are themselves JSON text
TextChars == {"a", "n", BS, NL, DQ}

SpecialCandidates ==
    { Chars("hi"), Chars("123"), Chars("true"), Chars("null"), Chars("-0"),
      Chars("hi\\nthere"), Chars("\\\\n"), Chars("\\n\\n"), Chars("a\\nb"), Chars("\\\\nn"),
      Chars("\"a\""), Chars("a\nb"),
      Chars("[{\"output\":\"x\"}]"),
      Chars(" [{\"output\":\"x\"}]"),
      Chars("[ {\"output\":\"x\\\\ny\"} ]"),
      Chars("[{\"output\":1}]"),
      Chars("{\"body\":{\"message\":\"x\"}}") }

Candidates == SeqsUpTo(TextChars, MaxLen) \cup SpecialCandidates

Obj1(key, val) == JObj(<<key>>, <<val>>)

\* the minimal bodies that hold a candidate in one of the reply shapes
WrapBodyMessage(c) == JsonStringify(Obj1(K_body, Obj1(K_message, JStr(c))))
WrapOutput(c) == JsonStringify(JArr(<<Obj1(K_output, JStr(c))>>))
WrapReply(c) == JsonStringify(Obj1(K_reply, JStr(c)))
WrapMessage(c) == JsonStringify(Obj1(K_message, JStr(c)))
WrapText(c) == JsonStringify(Obj1(K_text, JStr(c)))
WrapString(c) == JsonStringify(JStr(c))

Wrapped(c) ==
    {WrapBodyMessage(c), WrapOutput(c), WrapReply(c), WrapMessage(c), WrapText(c),
     WrapString(c)}

\* bodies that match no shape, several shapes, or are cut short
SpecialBodies ==
    { Chars("{\"foo\":\"bar\"}"),
      Chars("{}"), Chars("[]"), Chars("[1]"), Chars("[null]"), Chars("0"), Chars("false"),
      Chars("{\"body\":"), Chars("[{\"output\":"), Chars("{\"body\":x"),
      Chars("{\"body\":null}"), Chars("{\"body\":\"x\"}"), Chars("{\"body\":{\"message\":1}}"),
      Chars("{\"body\":[{\"message\":\"x\"}]}"),
      Chars("{\"body\":{\"message\":\"b\"},\"reply\":\"r\"}"),
      Chars("{\"reply\":\"r\",\"body\":{\"message\":\"b\"}}"),
      Chars("{\"text\":\"t\",\"message\":\"m\",\"reply\":\"r\"}"),
      Chars("{\"text\":\"t\",\"message\":\"m\"}"),
      Chars("{\"reply\":1,\"text\":\"t\"}"),
      Chars("{\"reply\":\"a\",\"reply\":\"b\"}"),
      Chars("[{\"output\":\"o\",\"reply\":\"r\"},{\"output\":\"p\"}]"),
      Chars("[[],{\"output\":\"o\"}]"),
      Chars(" {\"reply\" : \"hi\"} ") }

Bodies == Candidates \cup UNION {Wrapped(c) : c \in Candidates} \cup SpecialBodies

Statuses == {200, 500}

StatusTextOf(status) == IF status = 200 THEN Chars("OK") ELSE Chars("Internal Server Error")

\* the responses the normalizer is exercised on
NormResponses ==
    {Response(st, StatusTextOf(st), b, TRUE, NoCause) : st \in Statuses, b \in Bodies}
    \cup {Response(st, StatusTextOf(st), <<>>, FALSE, c) : st \in Statuses, c \in Causes}

\* the responses and the fetch failure of a chat session
ChatCauses == {Cause(TRUE, Chars("Failed to fetch"))}

ChatBodies ==
    { Chars("{\"body\":{\"message\":\"hi\\\\nthere\"}}"), Chars("{\"body\":") }

ChatResponses ==
    {Response(200, Chars("OK"), b, TRUE, NoCause) : b \in ChatBodies}
    \cup {Response(500, <<>>, Chars("boom"), TRUE, NoCause)}

(***************************************************************************)
(* ChatInterface: the state after the first render.                        *)
(***************************************************************************)
Init ==
    /\ revision \in Revisions
    /\ messages = <<>>
    /\ inputValue = <<>>
    /\ isLoading = FALSE
    /\ pc = "idle"
    /\ arg = <<>>
    /\ cause = NoCause
    /\ response = NoResponse
    /\ result = NoResult
    /\ lastOp = "init"

\* onChange of the input box, which is disabled while isLoading
SetInputValue(v) ==
    /\ ~isLoading
    /\ v # inputValue
    /\ inputValue' = v
    /\ lastOp' = "onChange"
    /\ UNCHANGED <<revision, messages, isLoading, pc, arg, cause, response, result>>

\* as HandleSendMessage, with inputValue tested and sent untrimmed
HandleSendMessage_NoTrim ==
    IF inputValue = <<>> \/ isLoading
    THEN /\ lastOp' = "submitIgnored"
         /\ UNCHANGED <<revision, messages, inputValue, isLoading, pc, arg, cause, response, result>>
    ELSE /\ Turns < MaxTurns
         /\ messages' = Append(messages, Message("user", inputValue))
         /\ inputValue' = <<>>
         /\ isLoading' = TRUE
         /\ pc' = "fetch"
         /\ arg' = inputValue
         /\ cause' = NoCause
         /\ response' = NoResponse
         /\ lastOp' = "submit"
         /\ UNCHANGED <<revision, result>>

\* handleSendMessage up to the await of sendMessageToTripGuide(trimmedInput)
HandleSendMessage ==
    LET trimmedInput == Trim(inputValue) IN
    IF trimmedInput = <<>> \/ isLoading
    THEN /\ lastOp' = "submitIgnored"
         /\ UNCHANGED <<revision, messages, inputValue, isLoading, pc, arg, cause, response, result>>
    ELSE /\ Turns < MaxTurns
         /\ messages' = Append(messages, Message("user", trimmedInput))
         /\ inputValue' = <<>>
         /\ isLoading' = TRUE
         /\ pc' = "fetch"
         /\ arg' = trimmedInput
         /\ cause' = NoCause
         /\ response' = NoResponse
         /\ lastOp' = "submit"
         /\ UNCHANGED <<revision, result>>

\* as Settle, with a catch block that only logs the error
Settle_SilentOnError(res) ==
    /\ messages' = IF res.thrown THEN messages
                   ELSE Append(messages, Message("ai", AiMessageContent(res)))
    /\ isLoading' = FALSE
    /\ pc' = "idle"
    /\ result' = res
    /\ lastOp' = "settled"
    /\ UNCHANGED <<revision, inputValue, arg>>

\* as Settle, with setIsLoading(false) at the end of the try block only
Settle_NoFinally(res) ==
    /\ messages' = Append(messages, Message("ai", AiMessageContent(res)))
    /\ isLoading' = IF res.thrown THEN isLoading ELSE FALSE
    /\ pc' = "idle"
    /\ result' = res
    /\ lastOp' = "settled"
    /\ UNCHANGED <<revision, inputValue, arg>>

\* handleSendMessage from the settling of the call on: the try or the catch
\* block, then the finally block
Settle(res) ==
    /\ messages' = Append(messages, Message("ai", AiMessageContent(res)))
    /\ isLoading' = FALSE
    /\ pc' = "idle"
    /\ result' = res
    /\ lastOp' = "settled"
    /\ UNCHANGED <<revision, inputValue, arg>>

\* the fetch of the pending call rejects
FetchRejects(c) ==
    /\ pc = "fetch"
    /\ isLoading
    /\ cause' = c
    /\ response' = NoResponse
    /\ Settle(sendMessageToTripGuide(revision, Rejected(c)))

\* the fetch of the pending call resolves; the call awaits the body next
FetchResolves(resp) ==
    /\ pc = "fetch"
    /\ isLoading
    /\ pc' = "body"
    /\ cause' = NoCause
    /\ response' = resp
    /\ lastOp' = "responded"
    /\ UNCHANGED <<revision, messages, inputValue, isLoading, arg, result>>

\* response.text() / response.json() settles and the call runs to its end
BodyRead ==
    /\ pc = "body"
    /\ isLoading
    /\ UNCHANGED <<cause, response>>
    /\ Settle(sendMessageToTripGuide(revision, Resolved(response)))

Next ==
    \/ \E v \in InputValues : SetInputValue(v)
    \/ HandleSendMessage
    \/ \E c \in ChatCauses : FetchRejects(c)
    \/ \E resp \in ChatResponses : FetchResolves(resp)
    \/ BodyRead

Spec == Init /\ [][Next]_vars

\* the promise of fetch settles, one way or the other
FetchSettles ==
    \/ \E c \in ChatCauses : FetchRejects(c)
    \/ \E resp \in ChatResponses : FetchResolves(resp)

\* the reading of the body settles and the call runs to its end: the step
\* from pc = "body" to pc = "idle", which only BodyRead takes and which is
\* enabled exactly where BodyRead is
BodySettles == pc = "body" /\ pc' = "idle"

\* the chat component with calls that settle: a pending fetch settles, and
\* once it resolved the reading of the body settles and the rest of
\* handleSendMessage runs
SpecLive == Spec /\ WF_vars(FetchSettles) /\ WF_pc(BodySettles)

(***************************************************************************)
(* sendMessageToTripGuide called on its own, once, with every response of  *)
(* NormResponses; the chat component stays as first rendered.              *)
(***************************************************************************)
NormMessages == {Chars("hi")}

NormCall(m) ==
    /\ pc = "idle"
    /\ result = NoResult
    /\ pc' = "fetch"
    /\ arg' = m
    /\ lastOp' = "call"
    /\ UNCHANGED <<revision, messages, inputValue, isLoading, cause, response, result>>

NormFetchRejects(c) ==
    /\ pc = "fetch"
    /\ pc' = "done"
    /\ cause' = c
    /\ result' = sendMessageToTripGuide(revision, Rejected(c))
    /\ lastOp' = "rejected"
    /\ UNCHANGED <<revision, messages, inputValue, isLoading, arg, response>>

NormFetchResolves(resp) ==
    /\ pc = "fetch"
    /\ pc' = "body"
    /\ response' = resp
    /\ lastOp' = "responded"
    /\ UNCHANGED <<revision, messages, inputValue, isLoading, arg, cause, result>>

NormBodyRead ==
    /\ pc = "body"
    /\ pc' = "done"
    /\ result' = sendMessageToTripGuide(revision, Resolved(response))
    /\ lastOp' = "settled"
    /\ UNCHANGED <<revision, messages, inputValue, isLoading, arg, cause, response>>

NextNorm ==
    \/ \E m \in NormMessages : NormCall(m)
    \/ \E c \in Causes : NormFetchRejects(c)
    \/ \E resp \in NormResponses : NormFetchResolves(resp)
    \/ NormBodyRead

SpecNorm == Init /\ [][NextNorm]_vars

(***************************************************************************)
(* Properties.  The claims on sendMessageToTripGuide are checked under     *)
(* SpecNorm, those on the chat component under Spec.                       *)
(***************************************************************************)
\* the call got a response, read its body and ran to its end
BodySettled == pc = "done" /\ lastOp = "settled"

\* ... and the response was a success whose body text could be read
OkSettled == BodySettled /\ IsOk(response) /\ response.readable

\* the literal two-character sequence backslash-n
EscapedNewline == <<BS, "n">>

HasWrapperPrefix(s) ==
    StartsWith(s, OutputWrapperPrefix) \/ StartsWith(s, BodyWrapperPrefix)

\* the reply shapes of the specification's priority list
ShapeBodyMessage(v) ==
    /\ v.t = "object"
    /\ GetProp(v, K_body).t = "object"
    /\ GetProp(GetProp(v, K_body), K_message).t = "string"

ShapeOutputArray(v) ==
    /\ v.t = "array"
    /\ Len(v.items) >= 1
    /\ v.items[1].t = "object"
    /\ GetProp(v.items[1], K_output).t = "string"

ShapeField(v, key) == v.t = "object" /\ GetProp(v, key).t = "string"

\* the candidate the priority list chooses for a parsed value, first match wins
ReferenceCandidate(v) ==
    CASE ShapeBodyMessage(v) -> [found |-> TRUE, s |-> GetProp(GetProp(v, K_body), K_message).s]
      [] ShapeOutputArray(v) -> [found |-> TRUE, s |-> GetProp(v.items[1], K_output).s]
      [] ShapeField(v, K_reply) -> [found |-> TRUE, s |-> GetProp(v, K_reply).s]
      [] ShapeField(v, K_message) -> [found |-> TRUE, s |-> GetProp(v, K_message).s]
      [] ShapeField(v, K_text) -> [found |-> TRUE, s |-> GetProp(v, K_text).s]
      [] v.t = "string" -> [found |-> TRUE, s |-> v.s]
      [] OTHER -> [found |-> FALSE, s |-> <<>>]

\* C1: for a non-OK response with any body, the call ends in the HTTP failure
\* that carries the status, and what the chat appends as the ai message is the
\* same whatever the body text is (the body is no part of it).
C1_NonOkNeverShowsBody ==
    (BodySettled /\ ~IsOk(response) /\ revision \in {1, 4}) =>
        /\ result.thrown
        /\ result.site = "http"
        /\ Contains(result.text, IntToChars(response.status))
        /\ AiMessageContent(result) =
             AiMessageContent(sendMessageToTripGuide(revision,
                 Resolved([response EXCEPT !.body = <<>>])))

\* C2: a success body that parses as a JSON object or array and matches no
\* reply shape ends in a failure, and what the chat appends holds neither the
\* body text nor the JSON text of the parsed value.
C2_UnrecognizedShapeFails ==
    (OkSettled /\ revision \in {1, 3} /\ JsonParse(response.body).ok
        /\ JsonParse(response.body).v.t \in {"object", "array"}
        /\ ~ReferenceCandidate(JsonParse(response.body).v).found) =>
        /\ result.thrown
        /\ ~Contains(AiMessageContent(result), response.body)
        /\ ~Contains(AiMessageContent(result), JsonStringify(JsonParse(response.body).v))

\* a plain-text body: text that is no JSON, or is a JSON scalar on its own
PlainText(body) ==
    \/ ~JsonParse(body).ok
    \/ JsonParse(body).v.t \in {"number", "true", "false", "null", "string"}

\* C3 as stated: every plain-text success body comes back as the reply,
\* changed only by the replacement of backslash-n.
C3_PlainTextUnchanged ==
    (OkSettled /\ revision = 1 /\ PlainText(response.body)) =>
        result = Returned("return", ReplaceEscapedNewlines(response.body))

\* C3 as amended: every plain-text success body that does not begin with a
\* wrapper prefix comes back as the reply, changed only by the replacement of
\* backslash-n; one that begins with a wrapper prefix is thrown as unreadable.
C3_PlainTextUnchangedUnlessWrapperPrefix ==
    (OkSettled /\ revision = 1 /\ PlainText(response.body)) =>
        IF HasWrapperPrefix(response.body)
        THEN result.thrown /\ result.site = "guard"
        ELSE result = Returned("return", ReplaceEscapedNewlines(response.body))

\* a JSON string body with an escaped newline came back with its quotes
C3_Witness ==
    /\ OkSettled
    /\ revision = 1
    /\ response.body = <<DQ, BS, "n", DQ>>
    /\ result = Returned("return", <<DQ, NL, DQ>>)

\* C4: for a success body that parses as JSON and matches a reply shape, the
\* reply is the candidate the priority list chooses, cleaned (unless the guard
\* on wrapper prefixes applies to it).
C4_PriorityList ==
    (OkSettled /\ revision = 1 /\ JsonParse(response.body).ok
        /\ ReferenceCandidate(JsonParse(response.body).v).found
        /\ ~HasWrapperPrefix(ReplaceEscapedNewlines(
                ReferenceCandidate(JsonParse(response.body).v).s))) =>
        result = Returned("return",
                    ReplaceEscapedNewlines(ReferenceCandidate(JsonParse(response.body).v).s))

\* C5: a candidate without a literal backslash-n and without a wrapper prefix,
\* wrapped in a minimal body of a recognized shape, comes back unchanged.
C5_RoundTrip ==
    (OkSettled /\ revision = 1) =>
        \A c \in Candidates :
            (/\ ~Contains(c, EscapedNewline)
             /\ ~HasWrapperPrefix(c)
             /\ response.body \in {WrapBodyMessage(c), WrapOutput(c)}) =>
                result = Returned("return", c)

\* C6: cleaning a cleaned reply again changes nothing: the reply holds no
\* literal backslash-n, and the replacement maps it to itself.
C6_CleanIdempotent ==
    (OkSettled /\ revision = 1 /\ ~result.thrown) =>
        /\ ~Contains(result.text, EscapedNewline)
        /\ ReplaceEscapedNewlines(result.text) = result.text

\* a body with two escaped newlines in a row, and one behind a backslash
C6_Witness ==
    /\ OkSettled
    /\ revision = 1
    /\ response.body = <<BS, BS, "n", "n">>
    /\ result = Returned("return", <<BS, NL, "n">>)

\* C7: when fetch rejects, the call throws the network failure, which carries
\* the message of the cause when the cause is an Error.
C7_NetworkFailurePropagates ==
    (pc = "done" /\ lastOp = "rejected" /\ revision \in {1, 3}) =>
        /\ result.thrown
        /\ result.site = "network"
        /\ cause.isError => Contains(result.text, cause.message)

\* the candidate is the string of body.message
FromBodyMessage(body) ==
    /\ JsonParse(body).ok
    /\ ShapeBodyMessage(JsonParse(body).v)
    /\ messageToClean(body) = GetProp(GetProp(JsonParse(body).v, K_body), K_message).s

Pending == pc \in {"fetch", "body"}

\* C8: sendMessageToTripGuide is only ever invoked with the trimmed input,
\* which is not empty and has no white space at either end; a submit whose
\* input is empty after trimming starts no request and leaves messages,
\* inputValue and isLoading as they were.
C8_OnlyTrimmedNonEmpty ==
    [][/\ (~Pending /\ Pending') =>
            /\ arg' = Trim(inputValue)
            /\ arg' # <<>>
            /\ Head(arg') \notin TrimSpace
            /\ arg'[Len(arg')] \notin TrimSpace
       /\ Pending' => (arg' # <<>> /\ Trim(arg') = arg')
       /\ (lastOp' \in {"submit", "submitIgnored"} /\ Trim(inputValue) = <<>>) =>
            /\ lastOp' = "submitIgnored"
            /\ pc' = pc
            /\ UNCHANGED <<messages, inputValue, isLoading, arg>>
      ]_vars

\* a submit of a blank, non-empty input was ignored
C8_Witness ==
    /\ lastOp = "submitIgnored"
    /\ inputValue = <<" ">>
    /\ ~isLoading
    /\ ~Pending
    /\ messages = <<>>

\* C9: an accepted submit appends the user message and nothing else; nothing
\* is appended while the call is pending, so the last message then is the
\* user's; and the settling of the call appends exactly one ai message, the
\* reply or the text that starts with 'Sorry, I encountered an error: '.
C9_Ordering ==
    [][/\ (~Pending /\ Pending') => messages' = Append(messages, Message("user", arg'))
       /\ (Pending /\ Pending') => messages' = messages
       /\ Pending => messages[Len(messages)] = Message("user", arg)
       /\ (Pending /\ ~Pending') =>
            /\ Len(messages') = Len(messages) + 1
            /\ SubSeq(messages', 1, Len(messages)) = messages
            /\ messages'[Len(messages')].role = "ai"
            /\ messages'[Len(messages')].content =
                 IF result'.thrown
                 THEN Chars("Sorry, I encountered an error: ") \o result'.text
                 ELSE result'.text
       /\ (~Pending /\ ~Pending') => messages' = messages
      ]_vars

\* two turns: a reply, then a failure reported as an ai message
C9_Witness ==
    /\ ~Pending
    /\ Len(messages) = 4
    /\ messages[1].role = "user" /\ messages[2].role = "ai"
    /\ messages[3].role = "user" /\ messages[4].role = "ai"
    /\ messages[2].content = Chars("hi\nthere")
    /\ StartsWith(messages[4].content, Chars("Sorry, I encountered an error: "))

\* C12: at most one request is in flight: a request is pending exactly while
\* isLoading is true, a request starts only from isLoading false, and a
\* submit while isLoading is true changes nothing; and, the call settling,
\* isLoading returns to false after every accepted submit, whether the call
\* ended in a reply or in an error.
C12_OneInFlightAndLoadingEnds ==
    /\ [](isLoading <=> Pending)
    /\ [][/\ (lastOp' = "submit") => (~isLoading /\ ~Pending /\ isLoading' /\ pc' = "fetch")
          /\ (isLoading /\ lastOp' \in {"submit", "submitIgnored"}) =>
                /\ lastOp' = "submitIgnored"
                /\ pc' = pc
                /\ UNCHANGED <<messages, inputValue, isLoading, arg, cause, response, result>>
          /\ (Pending /\ Pending') => (arg' = arg /\ messages' = messages)
          /\ (Pending /\ ~Pending') => (~isLoading' /\ lastOp' = "settled")
         ]_vars
    /\ (isLoading ~> (~isLoading /\ lastOp = "settled"))

\* a submit arrived while the response body was being read, and was ignored
C12_Witness ==
    /\ lastOp = "submitIgnored"
    /\ isLoading
    /\ pc = "body"
    /\ Len(messages) = 3
    /\ messages[3].role = "user"

====
